---- MODULE Spec2Model ----
(***************************************************************************)
(* WinClone "scan" command: cmd/scan.go and the root command.              *)
(*                                                                         *)
(* The registry is a two-root tree fixed at Init.  A string is a sequence  *)
(* of one-character strings, so that strings.TrimSpace, strings.ToLower    *)
(* and strings.HasSuffix are computed, not assumed.                        *)
(***************************************************************************)
EXTENDS Integers, Sequences, FiniteSets, TLC

VARIABLES
    reg,          \* the registry: root name -> [open, list, kids]
    pc,           \* position of the single thread of control
    root,         \* index into Roots of the root being scanned
    idx,          \* loop index i of scanRegistryLocation (1-based)
    program,      \* the Program being built by getProgramFromSubkey
    programs,     \* scanRegistryLocation's local result slice
    allPrograms,  \* scanAllPrograms' result slice
    scanErr,      \* the error value scanAllPrograms returns
    attempts,     \* every registry.OpenKey call made, in order, with its outcome
    acquired,     \* handles returned by a successful registry.OpenKey, in order
    released,     \* handles passed to Close, in order
    log,          \* the user-visible messages that matter, in order
    outputFile,   \* value of the --output flag
    outputs,      \* output functions invoked by Run, in order
    file,         \* the destination file
    cmdErr,       \* what rootCmd.Execute() returns
    exitStatus    \* process exit status, -1 while running

vars == <<reg, pc, root, idx, program, programs, allPrograms, scanErr, attempts, acquired,
          released, log, outputFile, outputs, file, cmdErr, exitStatus>>

\* ---------------------------------------------------------------- bounds
MaxChildren == 3

\* ---------------------------------------------------------------- strings
IsSpace(c) == c \in {" ", "\t", "\n"}

RECURSIVE TrimLeft(_)
TrimLeft(s) ==
    IF s = <<>> THEN <<>>
    ELSE IF IsSpace(Head(s)) THEN TrimLeft(Tail(s)) ELSE s

RECURSIVE TrimRight(_)
TrimRight(s) ==
    IF s = <<>> THEN <<>>
    ELSE IF IsSpace(s[Len(s)]) THEN TrimRight(SubSeq(s, 1, Len(s) - 1)) ELSE s

TrimSpace(s) == TrimRight(TrimLeft(s))

LowerChar(c) ==
    CASE c = "J" -> "j"
      [] c = "S" -> "s"
      [] c = "O" -> "o"
      [] c = "N" -> "n"
      [] c = "X" -> "x"
      [] c = "T" -> "t"
      [] OTHER -> c

ToLower(s) == [i \in 1..Len(s) |-> LowerChar(s[i])]

HasSuffix(s, suf) ==
    /\ Len(s) >= Len(suf)
    /\ SubSeq(s, Len(s) - Len(suf) + 1, Len(s)) = suf

JsonExt == <<".", "j", "s", "o", "n">>

IsJSONTargetExact(f) == HasSuffix(f, JsonExt)

IsJSONTarget(f) == HasSuffix(ToLower(f), JsonExt)

\* ---------------------------------------------------------------- registry
Roots == <<"A", "B">>

Present(s) == [ok |-> TRUE, val |-> s]
Missing == [ok |-> FALSE, val |-> <<>>]

\* The subkeys a root may hold: what OpenKey and GetStringValue answer for each.
SubKeys ==
    { [open |-> FALSE, DisplayName |-> Present(<<"a">>),
       DisplayVersion |-> Present(<<"1">>), InstallLocation |-> Present(<<"p">>)],
      [open |-> TRUE, DisplayName |-> Missing,
       DisplayVersion |-> Present(<<" ", "1">>), InstallLocation |-> Present(<<"p", " ">>)],
      [open |-> TRUE, DisplayName |-> Present(<<" ", "\t">>),
       DisplayVersion |-> Present(<<"1">>), InstallLocation |-> Missing],
      [open |-> TRUE, DisplayName |-> Present(<<>>),
       DisplayVersion |-> Present(<<"2">>), InstallLocation |-> Present(<<"q">>)],
      [open |-> TRUE, DisplayName |-> Present(<<" ", "a", " ">>),
       DisplayVersion |-> Present(<<" ", "1", " ">>),
       InstallLocation |-> Present(<<"\t", "p", " ">>)],
      [open |-> TRUE, DisplayName |-> Present(<<"b">>),
       DisplayVersion |-> Missing, InstallLocation |-> Present(<<"q", " ">>)],
      [open |-> TRUE, DisplayName |-> Present(<<"c", " ">>),
       DisplayVersion |-> Present(<<"2", "\n">>), InstallLocation |-> Missing] }

\* A root that cannot be opened or listed shows no subkeys to anybody.
FailedRoots ==
    { [open |-> FALSE, list |-> TRUE, kids |-> <<>>],
      [open |-> TRUE, list |-> FALSE, kids |-> <<>>] }

ListedRoots(n) == { [open |-> TRUE, list |-> TRUE, kids |-> k] : k \in [1..n -> SubKeys] }

RootKeys(m) == FailedRoots \cup UNION { ListedRoots(n) : n \in 0..m }

\* every registry holding at most MaxChildren subkeys under its two roots
Registries ==
    UNION { { [A |-> a, B |-> b] : b \in RootKeys(MaxChildren - Len(a.kids)) } :
            a \in RootKeys(MaxChildren) }

\* --output values the user may pass
Targets ==
    { <<>>,
      <<"x", ".", "j", "s", "o", "n">>,
      <<"X", ".", "J", "S", "O", "N">>,
      <<"x", ".", "t", "x", "t">>,
      <<"j", "s", "o", "n">>,
      <<"x", ".", "j", "s", "o", "n", ".", "t">> }

\* ---------------------------------------------------------------- values
Nil == "nil"

ZeroProgram == [Name |-> <<>>, Version |-> <<>>, Path |-> <<>>]

RootHandle(r) == [kind |-> "root", root |-> Roots[r], sub |-> 0]
SubHandle(r, i) == [kind |-> "sub", root |-> Roots[r], sub |-> i]

\* the destination: whether it exists, and whether every record reached it
NoFile == [exists |-> FALSE, complete |-> FALSE, format |-> "none"]
FileOf(fmt, done) == [exists |-> TRUE, complete |-> done, format |-> fmt]

CurRoot == reg[Roots[root]]
CurKid == CurRoot.kids[idx]

Init ==
    /\ reg \in Registries
    /\ pc = "start"
    /\ root = 1
    /\ idx = 1
    /\ program = ZeroProgram
    /\ programs = <<>>
    /\ allPrograms = <<>>
    /\ scanErr = Nil
    /\ attempts = <<>>
    /\ acquired = <<>>
    /\ released = <<>>
    /\ log = <<>>
    /\ outputFile = <<>>
    /\ outputs = <<>>
    /\ file = NoFile
    /\ cmdErr = Nil
    /\ exitStatus = -1

\* ---------------------------------------------------------------- helpers
\* registry.OpenKey: the call is recorded; a handle exists only on success
OpenKey(h, ok) ==
    /\ attempts' = Append(attempts, [handle |-> h, ok |-> ok])
    /\ acquired' = IF ok THEN Append(acquired, h) ELSE acquired

CloseNothing(h) == released' = released

\* the deferred key.Close() / subkey.Close()
Close(h) == released' = Append(released, h)

\* subkey.GetStringValue(name): (value, err)
GetStringValue(kid, name) ==
    CASE name = "DisplayName" -> kid.DisplayName
      [] name = "DisplayVersion" -> kid.DisplayVersion
      [] name = "InstallLocation" -> kid.InstallLocation

OptionalFieldUntrimmed(r, old) == IF r.ok THEN r.val ELSE old

\* if err == nil { program.X = strings.TrimSpace(x) }
OptionalField(r, old) == IF r.ok THEN TrimSpace(r.val) ELSE old

HasNameAlways(p) == TRUE

\* if program.Name != ""
HasName(p) == p.Name # <<>>

PrependAll(all, ps) == ps \o all

\* allPrograms = append(allPrograms, programsNN...)
AppendAll(all, ps) == all \o ps

WarningFor(r) == IF r = 1 THEN "Warning64" ELSE "Warning32"

\* scanAllPrograms: `return allPrograms, nil`
ScanAllProgramsErr(warnings) == Nil

\* Execute: `if err != nil { os.Exit(1) }`, otherwise main returns
ExitCode(err) == IF err # Nil THEN 1 ELSE 0

RunReturnsScanFailure(l) ==
    IF \E i \in 1..Len(l) : l[i] \in {"Warning64", "Warning32"} THEN "scan failed" ELSE Nil

\* scanCmd declares Run, not RunE: the command hands no error back to cobra
RunReturns(l) == Nil

SkipToEnd(i) == Len(reg[Roots[root]].kids) + 1

\* the loop's `continue`: the subkey after a skipped one
SkipTo(i) == i + 1

\* where scanAllPrograms goes after a root: to the second root, or to its return
PcAfterRoot(r) == IF r = 1 THEN "open_root" ELSE "scan_ret"

PcAfterRootErrorReturns(r) == "scan_ret"

\* the warning branches do not return: control falls through to the next step
PcAfterRootError(r) == PcAfterRoot(r)

NextRoot(to) ==
    /\ root' = IF to = "open_root" THEN 2 ELSE root
    /\ pc' = to
    /\ programs' = <<>>
    /\ idx' = 1

RootFailedSilently ==
    /\ log' = log
    /\ allPrograms' = allPrograms
    /\ NextRoot(PcAfterRootError(root))

\* scanRegistryLocation returned an error: the warning branch of scanAllPrograms
RootFailed ==
    /\ log' = Append(log, WarningFor(root))
    /\ allPrograms' = allPrograms
    /\ NextRoot(PcAfterRootError(root))

\* ---------------------------------------------------------------- actions
\* rootCmd.Execute(): cobra parses the command line and either fails or runs scanCmd.Run
ExecuteRoot ==
    /\ pc = "start"
    /\ \E parsed \in BOOLEAN :
         IF parsed
         THEN /\ pc' = "open_root"
              /\ UNCHANGED <<cmdErr, exitStatus>>
         ELSE /\ cmdErr' = "unknown flag"
              /\ exitStatus' = ExitCode("unknown flag")
              /\ pc' = "exited"
    /\ UNCHANGED <<reg, root, idx, program, programs, allPrograms, scanErr, attempts,
                   acquired, released, log, outputFile, outputs, file>>

\* scanRegistryLocation, step 1: registry.OpenKey on the root
OpenRootKey ==
    /\ pc = "open_root"
    /\ OpenKey(RootHandle(root), CurRoot.open)
    /\ IF CurRoot.open
       THEN /\ pc' = "list"
            /\ programs' = <<>>
            /\ UNCHANGED <<root, idx, log, allPrograms>>
       ELSE RootFailed
    /\ UNCHANGED <<reg, program, scanErr, released, outputFile, outputs, file,
                   cmdErr, exitStatus>>

\* scanRegistryLocation, step 2: key.ReadSubKeyNames(-1)
ReadSubKeyNames ==
    /\ pc = "list"
    /\ IF CurRoot.list
       THEN /\ pc' = "loop"
            /\ idx' = 1
            /\ UNCHANGED <<root, programs, log, allPrograms, released>>
       ELSE /\ Close(RootHandle(root))
            /\ RootFailed
    /\ UNCHANGED <<reg, program, scanErr, attempts, acquired, outputFile, outputs,
                   file, cmdErr, exitStatus>>

\* getProgramFromSubkey, step 1: registry.OpenKey on the next subkey
OpenSubkey ==
    /\ pc = "loop"
    /\ idx <= Len(CurRoot.kids)
    /\ OpenKey(SubHandle(root, idx), CurKid.open)
    /\ program' = ZeroProgram
    /\ IF CurKid.open
       THEN /\ pc' = "name"
            /\ idx' = idx
       ELSE /\ pc' = "loop"
            /\ idx' = SkipTo(idx)
    /\ UNCHANGED <<reg, root, programs, allPrograms, scanErr, released, log,
                   outputFile, outputs, file, cmdErr, exitStatus>>

\* getProgramFromSubkey, step 2: the required DisplayName
ReadDisplayName ==
    /\ pc = "name"
    /\ LET r == GetStringValue(CurKid, "DisplayName") IN
         IF r.ok
         THEN /\ program' = [program EXCEPT !.Name = TrimSpace(r.val)]
              /\ pc' = "optional"
              /\ UNCHANGED <<idx, released>>
         ELSE /\ Close(SubHandle(root, idx))
              /\ pc' = "loop"
              /\ idx' = SkipTo(idx)
              /\ UNCHANGED program
    /\ UNCHANGED <<reg, root, programs, allPrograms, scanErr, attempts, acquired, log,
                   outputFile, outputs, file, cmdErr, exitStatus>>

\* getProgramFromSubkey, steps 3 and 4, its return, and the caller's append
ReadOptionalFields ==
    /\ pc = "optional"
    /\ LET v == GetStringValue(CurKid, "DisplayVersion")
           l == GetStringValue(CurKid, "InstallLocation")
           p == [program EXCEPT !.Version = OptionalField(v, program.Version),
                                !.Path = OptionalField(l, program.Path)]
       IN /\ program' = p
          /\ programs' = IF HasName(p) THEN Append(programs, p) ELSE programs
    /\ Close(SubHandle(root, idx))
    /\ pc' = "loop"
    /\ idx' = idx + 1
    /\ UNCHANGED <<reg, root, allPrograms, scanErr, attempts, acquired, log,
                   outputFile, outputs, file, cmdErr, exitStatus>>

\* scanRegistryLocation returns its slice; scanAllPrograms appends it
ReturnPrograms ==
    /\ pc = "loop"
    /\ idx > Len(CurRoot.kids)
    /\ Close(RootHandle(root))
    /\ allPrograms' = AppendAll(allPrograms, programs)
    /\ NextRoot(PcAfterRoot(root))
    /\ UNCHANGED <<reg, program, scanErr, attempts, acquired, log, outputFile,
                   outputs, file, cmdErr, exitStatus>>

\* scanAllPrograms returns; Run tests err and reads the --output flag
RunAfterScan ==
    /\ pc = "scan_ret"
    /\ scanErr' = ScanAllProgramsErr(log)
    /\ IF scanErr' # Nil
       THEN /\ log' = Append(log, "ErrorScanning")
            /\ pc' = "exited"
            /\ cmdErr' = RunReturns(log')
            /\ exitStatus' = ExitCode(cmdErr')
            /\ UNCHANGED outputFile
       ELSE /\ \E t \in Targets : outputFile' = t
            /\ pc' = "output"
            /\ UNCHANGED <<log, cmdErr, exitStatus>>
    /\ UNCHANGED <<reg, root, idx, program, programs, allPrograms, attempts, acquired,
                   released, outputs, file>>

\* Run, no target: displayResults
DisplayResults ==
    /\ pc = "output"
    /\ outputFile = <<>>
    /\ outputs' = Append(outputs, "console")
    /\ log' = Append(log, "ScanComplete")
    /\ pc' = "exited"
    /\ cmdErr' = RunReturns(log')
    /\ exitStatus' = ExitCode(cmdErr')
    /\ UNCHANGED <<reg, root, idx, program, programs, allPrograms, scanErr, attempts,
                   acquired, released, outputFile, file>>

\* Run, target ending in .json: saveToJSON
SaveToJSON ==
    /\ pc = "output"
    /\ outputFile # <<>>
    /\ IsJSONTarget(outputFile)
    /\ outputs' = Append(outputs, "json")
    /\ \E created, written \in BOOLEAN :
         IF ~created
         THEN /\ ~written
              /\ file' = file
              /\ log' = Append(log, "ErrorSavingJSON")
         ELSE /\ file' = FileOf("json", written)
              /\ log' = Append(log, IF written THEN "SavedJSON" ELSE "ErrorSavingJSON")
    /\ pc' = "exited"
    /\ cmdErr' = RunReturns(log')
    /\ exitStatus' = ExitCode(cmdErr')
    /\ UNCHANGED <<reg, root, idx, program, programs, allPrograms, scanErr, attempts,
                   acquired, released, outputFile>>

\* Run, any other target: saveToText, whose Fprintf results are discarded
SaveToText ==
    /\ pc = "output"
    /\ outputFile # <<>>
    /\ ~IsJSONTarget(outputFile)
    /\ outputs' = Append(outputs, "text")
    /\ \E created, written \in BOOLEAN :
         IF ~created
         THEN /\ ~written
              /\ file' = file
              /\ log' = Append(log, "ErrorSavingText")
         ELSE /\ file' = FileOf("text", written)
              /\ log' = Append(log, "SavedText")
    /\ pc' = "exited"
    /\ cmdErr' = RunReturns(log')
    /\ exitStatus' = ExitCode(cmdErr')
    /\ UNCHANGED <<reg, root, idx, program, programs, allPrograms, scanErr, attempts,
                   acquired, released, outputFile>>

Next ==
    \/ ExecuteRoot
    \/ OpenRootKey
    \/ ReadSubKeyNames
    \/ OpenSubkey
    \/ ReadDisplayName
    \/ ReadOptionalFields
    \/ ReturnPrograms
    \/ RunAfterScan
    \/ DisplayResults
    \/ SaveToJSON
    \/ SaveToText

Spec == Init /\ [][Next]_vars

\* a single thread that keeps running until the process exits
FairSpec == Spec /\ WF_vars(Next)

\* ---------------------------------------------------------------- vocabulary of the properties
\* scanAllPrograms has returned
Scanned == pc \in {"scan_ret", "output", "exited"} /\ attempts # <<>>

RootFails(r) == ~reg[r].open \/ ~reg[r].list

Unreadable(kid) == ~kid.open \/ ~kid.DisplayName.ok

WhitespaceOnly(f) == f.ok /\ f.val # <<>> /\ \A i \in 1..Len(f.val) : IsSpace(f.val[i])

Stripped(f) == IF f.ok THEN TrimSpace(f.val) ELSE <<>>

\* the record a subkey stands for
RecordOf(kid) ==
    [Name |-> Stripped(kid.DisplayName), Version |-> Stripped(kid.DisplayVersion),
     Path |-> Stripped(kid.InstallLocation)]

Yields(kid) == ~Unreadable(kid) /\ RecordOf(kid).Name # <<>>

\* the records of a listing, in listed order
RECURSIVE RecordsOf(_)
RecordsOf(kids) ==
    IF kids = <<>> THEN <<>>
    ELSE (IF Yields(Head(kids)) THEN <<RecordOf(Head(kids))>> ELSE <<>>)
         \o RecordsOf(Tail(kids))

Range(q) == { q[i] : i \in 1..Len(q) }

Warnings == { i \in 1..Len(log) : log[i] \in {"Warning64", "Warning32"} }

Attempted(h) == \E i \in 1..Len(attempts) : attempts[i].handle = h

\* handles acquired and not yet released
Held == { h \in Range(acquired) : h \notin Range(released) }

\* C1: the result is root A's accepted records in listed order followed by root
\* B's accepted records in listed order; while a root is being scanned its
\* partial result is the accepted records of the children already visited, and
\* the records of root A are already in place before any record of root B.
C1_RootOrder ==
    /\ Scanned =>
         allPrograms = (IF RootFails("A") THEN <<>> ELSE RecordsOf(reg.A.kids))
                       \o (IF RootFails("B") THEN <<>> ELSE RecordsOf(reg.B.kids))
    /\ pc = "loop" =>
         /\ programs = RecordsOf(SubSeq(CurRoot.kids, 1, idx - 1))
         /\ allPrograms = IF root = 1 THEN <<>> ELSE
                            (IF RootFails("A") THEN <<>> ELSE RecordsOf(reg.A.kids))

C1_Witness ==
    /\ Scanned
    /\ Len(RecordsOf(reg.A.kids)) = 2
    /\ Len(RecordsOf(reg.B.kids)) = 1
    /\ reg.A.kids[1] # reg.A.kids[2]
    /\ Len(allPrograms) = 3
    /\ allPrograms[3] \notin {allPrograms[1], allPrograms[2]}

\* C2: a root whose open or listing fails contributes nothing and the result is
\* exactly what the other root contributes; both roots are attempted whatever
\* happens to either.
C2_RootFailureIsolated ==
    Scanned =>
      /\ Attempted(RootHandle(1)) /\ Attempted(RootHandle(2))
      /\ (RootFails("A") /\ ~RootFails("B")) => allPrograms = RecordsOf(reg.B.kids)
      /\ (RootFails("B") /\ ~RootFails("A")) => allPrograms = RecordsOf(reg.A.kids)
      /\ (RootFails("A") /\ RootFails("B")) => allPrograms = <<>>

C2_Witness ==
    /\ Scanned
    /\ ~reg.A.list
    /\ ~RootFails("B")
    /\ Len(allPrograms) = 2

\* C3: the step that meets a child whose open fails, or whose DisplayName cannot
\* be read, adds no record and goes on to the next child of the same root.
C3_UnreadableChildSkipped ==
    [][ ((pc = "loop" /\ idx <= Len(CurRoot.kids) /\ ~CurKid.open)
          \/ (pc = "name" /\ ~CurKid.DisplayName.ok))
        => /\ programs' = programs
           /\ allPrograms' = allPrograms
           /\ pc' = "loop"
           /\ root' = root
           /\ idx' = idx + 1 ]_vars

C3_Witness ==
    /\ Scanned
    /\ Len(reg.A.kids) = 3
    /\ ~reg.A.kids[1].open
    /\ reg.A.kids[2].open /\ ~reg.A.kids[2].DisplayName.ok
    /\ reg.A.kids[2].DisplayVersion.ok /\ reg.A.kids[2].InstallLocation.ok
    /\ Yields(reg.A.kids[3])
    /\ allPrograms = <<RecordOf(reg.A.kids[3])>>

\* the children of a root whose DisplayName is present but trims to nothing
BlankNamed(r) ==
    { i \in 1..Len(reg[r].kids) :
        /\ reg[r].kids[i].open
        /\ reg[r].kids[i].DisplayName.ok
        /\ \A j \in 1..Len(reg[r].kids[i].DisplayName.val) :
             IsSpace(reg[r].kids[i].DisplayName.val[j]) }

\* C4 as stated: a child whose DisplayName is present, non-empty and nothing but
\* whitespace yields a record whose name is the empty string.
C4_WhitespaceNameKept ==
    [][ (pc = "optional" /\ WhitespaceOnly(CurKid.DisplayName))
        => /\ Len(programs') = Len(programs) + 1
           /\ programs'[Len(programs')].Name = <<>> ]_vars

\* C4 as the code has it: such a child is skipped like a child whose field is
\* literally empty, so no record of the result ever has an empty name.
C4_WhitespaceNameSkipped ==
    /\ \A p \in Range(programs) \cup Range(allPrograms) : p.Name # <<>>
    /\ Scanned =>
         Len(allPrograms) + Cardinality(BlankNamed("A")) + Cardinality(BlankNamed("B"))
           <= Len(reg.A.kids) + Len(reg.B.kids)

C4_Witness ==
    /\ Scanned
    /\ Len(reg.A.kids) = 2
    /\ reg.A.kids[1].open /\ WhitespaceOnly(reg.A.kids[1].DisplayName)
    /\ reg.A.kids[2].open /\ reg.A.kids[2].DisplayName = Present(<<>>)
    /\ ~RootFails("B")
    /\ allPrograms = RecordsOf(reg.B.kids)
    /\ Len(allPrograms) = 1

\* C5: a handle is held only inside the operation that opened it: none outside
\* scanRegistryLocation, the root's alone inside its loop, the root's and the
\* current child's inside getProgramFromSubkey.  Nothing is released that was
\* not acquired, nothing is released twice, and a failed open releases nothing.
C5_HandlesScoped ==
    /\ pc \in {"start", "open_root", "scan_ret", "output", "exited"} => Held = {}
    /\ pc \in {"list", "loop"} => Held = {RootHandle(root)}
    /\ pc \in {"name", "optional"} => Held = {RootHandle(root), SubHandle(root, idx)}
    /\ Range(released) \subseteq Range(acquired)
    /\ \A i, j \in 1..Len(released) : released[i] = released[j] => i = j
    /\ \A i \in 1..Len(attempts) :
         ~attempts[i].ok => attempts[i].handle \notin Range(released)

C5_Witness ==
    /\ Scanned
    /\ ~reg.A.list
    /\ Len(reg.B.kids) = 3
    /\ ~reg.B.kids[1].open
    /\ reg.B.kids[2].open /\ ~reg.B.kids[2].DisplayName.ok
    /\ Yields(reg.B.kids[3])
    /\ Len(acquired) = 4
    /\ Len(released) = 4

\* C6: one warning per root whose open or listing failed, and none for anything
\* that happens to a child.
C6_WarningsCountFailedRoots ==
    /\ \A r \in 1..2 : WarningFor(r) \in Range(log) => RootFails(Roots[r])
    /\ Scanned => /\ Cardinality(Warnings) = Cardinality({ r \in {"A", "B"} : RootFails(r) })
                  /\ \A r \in 1..2 : RootFails(Roots[r]) => WarningFor(r) \in Range(log)

C6_Witness ==
    /\ Scanned
    /\ ~reg.A.open
    /\ Len(reg.B.kids) = 3
    /\ \A i \in 1..3 : Unreadable(reg.B.kids[i])
    /\ Cardinality(Warnings) = 1

\* C7: an export that could not create or completely write its destination is
\* reported (an error message, no "saved" message) and leaves no file behind.
C7_FailedExportLeavesNothing ==
    (pc = "exited" /\ outputs # <<>> /\ outputs[1] \in {"json", "text"}
       /\ ~(file.exists /\ file.complete))
    => /\ ~file.exists
       /\ Range(log) \cap {"ErrorSavingJSON", "ErrorSavingText"} # {}
       /\ Range(log) \cap {"SavedJSON", "SavedText"} = {}

\* C8: the exit status is nonzero exactly when the command framework returned
\* an error, which happens only before the scan starts; a scan that ran exits
\* with status zero whatever warnings it printed and whatever it skipped.
C8_ExitStatus ==
    pc = "exited" =>
      /\ exitStatus \in {0, 1}
      /\ (exitStatus # 0) = (cmdErr # Nil)
      /\ cmdErr # Nil => attempts = <<>>
      /\ attempts # <<>> => exitStatus = 0

C8_Witness ==
    /\ pc = "exited"
    /\ RootFails("A") /\ RootFails("B")
    /\ Cardinality(Warnings) = 2
    /\ exitStatus = 0

\* C9: the step that reads the optional fields leaves the name alone, sets the
\* version to the trimmed DisplayVersion or to "" when it cannot be read, the
\* path likewise from InstallLocation, and appends the record whenever it has
\* a name, whichever of the two reads failed.
C9_OptionalFields ==
    [][ pc = "optional"
        => /\ program'.Name = program.Name
           /\ program'.Version = (IF CurKid.DisplayVersion.ok
                                  THEN TrimRight(TrimLeft(CurKid.DisplayVersion.val))
                                  ELSE <<>>)
           /\ program'.Path = (IF CurKid.InstallLocation.ok
                               THEN TrimRight(TrimLeft(CurKid.InstallLocation.val))
                               ELSE <<>>)
           /\ program.Name # <<>> => programs' = Append(programs, program')
           /\ pc' = "loop" /\ idx' = idx + 1 ]_vars

C9_Witness ==
    /\ Scanned
    /\ Len(reg.A.kids) = 3
    /\ \A i \in 1..3 : Yields(reg.A.kids[i])
    /\ reg.A.kids[1].DisplayVersion.ok /\ ~reg.A.kids[1].InstallLocation.ok
    /\ ~reg.A.kids[2].DisplayVersion.ok /\ reg.A.kids[2].InstallLocation.ok
    /\ reg.A.kids[3].DisplayVersion.ok /\ reg.A.kids[3].InstallLocation.ok
    /\ allPrograms = <<[Name |-> <<"c">>, Version |-> <<"2">>, Path |-> <<>>],
                       [Name |-> <<"b">>, Version |-> <<>>, Path |-> <<"q">>],
                       [Name |-> <<"a">>, Version |-> <<"1">>, Path |-> <<"p">>]>>

\* C10: a scan command that starts always comes to its end having attempted
\* both roots and invoked exactly one output function: the console for no
\* target, the JSON export for a target ending in ".json" in any letter case,
\* the text export for any other target; it never reports a scanning error.
OutputFor(t) ==
    IF t = <<>> THEN "console"
    ELSE IF t \in { <<"x", ".", "j", "s", "o", "n">>, <<"X", ".", "J", "S", "O", "N">> }
    THEN "json" ELSE "text"

C10_Done ==
    /\ pc = "exited"
    /\ Attempted(RootHandle(1)) /\ Attempted(RootHandle(2))
    /\ outputs = <<OutputFor(outputFile)>>
    /\ scanErr = Nil
    /\ "ErrorScanning" \notin Range(log)

C10_OneOutput == (pc = "open_root" /\ root = 1) ~> C10_Done

C10_Witness ==
    /\ C10_Done
    /\ RootFails("A") /\ RootFails("B")
    /\ outputFile = <<"X", ".", "J", "S", "O", "N">>
    /\ outputs = <<"json">>

====
